---- MODULE Spec2Model ----
(***************************************************************************)
(* Model of the AIotate job pipeline: the file-backed Store (jobs and      *)
(* conversations, one RWMutex per collection), the Queue with its worker   *)
(* pool (processJob holds the jobs write lock for a whole pass), and the   *)
(* HTTP control handlers (design/latex approve, refine, edit, fix, abort,  *)
(* retry, create, delete).                                                 *)
(*                                                                         *)
(* Timestamps (createdAt/updatedAt/completedAt) and the metadata bag are   *)
(* not modelled.  Text payloads are short tokens.                          *)
(***************************************************************************)
EXTENDS Integers, Sequences, FiniteSets, TLC

\* ------------------------------------------------------------------ bounds
NumJobs    == 1      \* jobs the Create handler may create in one run
NumClients == 1      \* HTTP requests in flight at the same time
MaxQueue   == 1      \* capacity of the job channel (100 in the program)
MaxConvs   == 2      \* conversations ever created in one run
MaxMsgs    == 6      \* messages a conversation may hold
MaxReqs    == 2      \* pipeline API and delete requests served in one run
MaxUpdates == 1      \* capacity of the status channel (100 in the program)
MaxConns   == 1      \* websocket connections to /api/v1/ws/job/:jobid in one run

\* ------------------------------------------------------- program constants
NumWorkers        == 2      \* pipelineQueue.Start(context.Background(), 2)
DefaultMaxRetries == 3      \* pipeline.NewJob(userID, string(requestJSON), 3)

JobIds  == 1..NumJobs
Workers == 1..NumWorkers
Clients == (NumWorkers + 1)..(NumWorkers + NumClients)
Caller  == NumWorkers + NumClients + 1
Conns   == 1..MaxConns

\* ------------------------------------------------------------- enumerations
StatusPending       == "pending"
StatusRunning       == "running"
StatusError         == "error"
StatusWaitingManual == "waiting_manual"
StatusWaitingAIFix  == "waiting_ai_fix"
StatusCompleted     == "completed"
StatusAborted       == "aborted"

StepPrompt  == "prompt"
StepDesign  == "design"
StepLatex   == "latex"
StepCompile == "compile"
StepDone    == "done"

\* position of a step in prompt -> design -> latex -> compile -> done
StepOrd(s) ==
    CASE s = StepPrompt  -> 0
      [] s = StepDesign  -> 1
      [] s = StepLatex   -> 2
      [] s = StepCompile -> 3
      [] s = StepDone    -> 4
      [] OTHER           -> -1

\* ------------------------------------------------------------------- state
VARIABLES
    jobsFile,     \* jobs.json: job id -> Job
    convsFile,    \* conversations.json: conversation id -> Conversation
    jobsMu,       \* set of processes holding the write side of Store.jobsMu
    jobs,         \* Queue.jobs: the channel of job ids
    nextJob,      \* next fresh job id (uuid.New in NewJob)
    nextConv,     \* next fresh conversation id (uuid.New in NewConversation)
    nreq,         \* pipeline API and delete requests received so far
    wpc,          \* worker -> position in worker / processJob
    wid,          \* worker -> job id received from the channel
    wjob,         \* worker -> the *Job it mutates in memory
    wjobs,        \* worker -> the jobs map loaded by GetJobForUpdate
    wconv,        \* worker -> the *Conversation loaded by the running step
    cpc,          \* client -> position in its handler
    cop,          \* client -> handler being served
    cid,          \* client -> job id of the request
    cjob,         \* client -> the *Job returned by GetJob
    cconv,        \* client -> the *Conversation the handler works on
    cread,        \* client -> the job as GetJob returned it, before the handler changed it
    lastUpdate,   \* job id -> last StatusUpdate built by sendUpdate (or NoUpdate)
    sentNow,      \* StatusUpdates built by the last step, in order
    passLog,      \* job id -> the StatusUpdates the last pass on the job has sent, in order
    abortMid,     \* job id -> an Abort was called while a pass on the job was running
    completedAfterAbort, \* job id -> a completed event was sent after such a call
    resp,         \* client -> the response its last handler returned ("" while none)
    enqErr,       \* client -> the error its last call of Queue.Enqueue returned ("" for nil)
    freshConv,    \* job id -> id of the conversation the last Retry installed (0: none)
    stop,         \* position of Queue.Stop: "no", "jobs", "wait", "returned"
    dpc,          \* position of statusUpdateHandler: "run", "exited"
    nupd,         \* number of StatusUpdates buffered in Queue.updates
    fault,        \* who faulted (send on a closed channel, unlock of an unlocked mutex): "none", "worker", "handler", "caller"
    listeners,    \* Queue.listeners: job id -> connection whose callback is registered (0: none)
    wsc,          \* connection -> position of its websocket handler: "none", "init", "read", "closed"
    wsjob,        \* connection -> job id of its URL
    upc,          \* a caller of Store.GetJobForUpdate: "idle", "locked", "committed", "done"
    uid,          \* that caller's job id
    ujobs,        \* the jobs map its commit closure has captured
    fixedLatex,   \* a model answer, as the sequence of its tokens
    cleans,       \* number of times cleanLatex has been applied to it
    cancelled,    \* the context given to Queue.Start has been cancelled
    fsPath,       \* content of the collection file (jobs.json / conversations.json)
    fsBak,        \* content of its backup file (.bak)
    fsTmp,        \* content of the temporary file of atomicWriteFile
    fpc,          \* position inside atomicWriteFile / NewStore, "idle" or "down"
    fNew,         \* the snapshot the save in progress writes
    fOld,         \* the snapshot that was stored when the save in progress began
    fLoad         \* what the last load returned (NotLoaded before any)

vars == <<jobsFile, convsFile, jobsMu, jobs, nextJob, nextConv, nreq,
          wpc, wid, wjob, wjobs, wconv, cpc, cop, cid, cjob, cconv, cread,
          lastUpdate, sentNow, passLog, abortMid, completedAfterAbort, resp, enqErr, freshConv,
          stop, dpc, nupd, fault, listeners, wsc, wsjob, upc, uid, ujobs, fixedLatex, cleans, cancelled, fsPath, fsBak, fsTmp, fpc, fNew, fOld, fLoad>>

storeVars  == <<jobsFile, convsFile, jobsMu>>
workerVars == <<wpc, wid, wjob, wjobs, wconv>>
clientVars == <<cpc, cop, cid, cjob, cconv, cread, resp, enqErr>>
histVars   == <<abortMid, completedAfterAbort>>
stopVars   == <<stop, dpc>>
fileVars   == <<fsPath, fsBak, fsTmp, fpc, fNew, fOld, fLoad>>
wsVars     == <<listeners, wsc, wsjob>>
callerVars == <<upc, uid, ujobs>>
cleanVars  == <<fixedLatex, cleans>>
ctxVars    == <<cancelled>>
auxVars    == <<freshConv, stopVars, fileVars, wsVars, callerVars, cleanVars, ctxVars>>
pipelineVars == <<jobsFile, convsFile, jobsMu, jobs, nextJob, nextConv, nreq,
                  wpc, wid, wjob, wjobs, wconv, cpc, cop, cid, cjob, cconv, cread,
                  abortMid, resp, enqErr, freshConv>>

\* ------------------------------------------------------------ value helpers
NoJob == [status |-> "none", step |-> "none", prompt |-> "", design |-> "",
          latex |-> "", pdfUrl |-> <<>>, errorMessage |-> "", errorLog |-> "",
          retryCount |-> 0, maxRetries |-> 0]

NoConv == [id |-> 0, jobId |-> 0, messages |-> <<>>]

NoUpdate == [status |-> "none", step |-> "none", message |-> "", type |-> "",
             actions |-> <<>>, pdfUrl |-> <<>>]

EmptyMap == [x \in {} |-> NoJob]

\* file contents: Json(n) is the JSON text of the n-th snapshot of the
\* collection; Json(0) is "{}", the empty collection NewStore writes
Json(n)   == [kind |-> "json", snap |-> n]
Absent    == [kind |-> "absent", snap |-> 0]      \* no such file
EmptyFile == [kind |-> "empty", snap |-> 0]       \* a file of length 0
Partial   == [kind |-> "partial", snap |-> 0]     \* a prefix of a JSON text
\* results of a load: Json(n), or
NotLoaded == [kind |-> "not-loaded", snap |-> 0]  \* no load yet
LoadError == [kind |-> "error", snap |-> 0]       \* the load returned an error

\* m with key k bound to v (Go: m[k] = v)
Put(m, k, v) == [x \in (DOMAIN m) \cup {k} |-> IF x = k THEN v ELSE m[x]]

\* m without key k (Go: delete(m, k))
Remove(m, k) == [x \in (DOMAIN m) \ {k} |-> m[x]]

\* a URL or file name is the sequence of the parts formatted into it
\* fmt.Sprintf("%s.pdf", job.ID.String())
PdfFilename(id) == <<id, ".pdf">>

\* fmt.Sprintf("/vela/bucket/bucket/%s", pdfFilename)
PdfURL(id) == <<"/vela/bucket/bucket/">> \o PdfFilename(id)

\* ------------------------------------------------------------- Job methods
NewJob(prompt, maxRetries) ==
    [status |-> StatusPending, step |-> StepPrompt, prompt |-> prompt,
     design |-> "", latex |-> "", pdfUrl |-> <<>>, errorMessage |-> "",
     errorLog |-> "", retryCount |-> 0, maxRetries |-> maxRetries]

NewConversation(id, jobId) == [id |-> id, jobId |-> jobId, messages |-> <<>>]

AddMessage(c, role, content) ==
    [c EXCEPT !.messages = Append(@, [role |-> role, content |-> content])]

\* variant: the comparison admits one retry too many
CanRetryInclusive(j) == j.retryCount <= j.maxRetries

CanRetry(j) == j.retryCount < j.maxRetries

\* variant: a failure counts twice
IncrementRetryTwice(j) == [j EXCEPT !.retryCount = @ + 2]

IncrementRetry(j) == [j EXCEPT !.retryCount = @ + 1]

\* variant: the message is recorded and the status is left as it was
SetErrorKeepsStatus(j, message) ==
    [j EXCEPT !.errorMessage = message, !.errorLog = ""]

\* log is always passed as nil by the callers
SetError(j, message) ==
    [j EXCEPT !.status = StatusError, !.errorMessage = message, !.errorLog = ""]

\* variant: the step is left where the compile step found it
SetCompletedKeepStep(j, pdfURL) ==
    [j EXCEPT !.status = StatusCompleted, !.pdfUrl = pdfURL]

SetCompleted(j, pdfURL) ==
    [j EXCEPT !.status = StatusCompleted, !.step = StepDone, !.pdfUrl = pdfURL]

AdvanceStep(j) ==
    [j EXCEPT !.step = CASE @ = StepPrompt  -> StepDesign
                         [] @ = StepDesign  -> StepLatex
                         [] @ = StepLatex   -> StepCompile
                         [] @ = StepCompile -> StepDone
                         [] OTHER           -> @]

ResetToStep(j, step) ==
    [j EXCEPT !.step = step, !.status = StatusPending,
              !.errorMessage = "", !.errorLog = ""]

\* variant: every prompt is taken for a request
ParseOkAlways(j) == TRUE

\* json.Unmarshal([]byte(job.Prompt), &req) succeeds
ParseOk(j) == j.prompt = "json"

\* --------------------------------------------------------------- the Store
\* sync.RWMutex: Lock and RLock both wait while a writer holds the mutex.
\* Readers (GetJob) load and release within one step.
JobsMuFree == jobsMu = {}

\* the conversations GetConversationByJobID may return: it ranges over a Go
\* map, so any conversation of the job can be the one found
ConvsOfJob(jobId) == {c \in DOMAIN convsFile : convsFile[c].jobId = jobId}

\* ------------------------------------------------------------- sendUpdate
Update(j, message, type) ==
    [status |-> j.status, step |-> j.step, message |-> message, type |-> type,
     actions |-> <<>>, pdfUrl |-> <<>>]

\* the update carries ws.Review_output data with the given pipeline actions
Review(j, message, actions) ==
    [Update(j, message, "review-out") EXCEPT !.actions = actions]

\* the update carries ws.Completed data with the given pdf_url
Completed(j, message, pdfURL) ==
    [Update(j, message, "completed") EXCEPT !.pdfUrl = pdfURL]

\* the channels of the queue: close(q.jobs) is the first statement of Stop,
\* close(q.updates) the second
JobsClosed    == stop # "no"
UpdatesClosed == stop \in {"wait", "returned"}

\* the updates of one step, for job id, as sendUpdate builds them in order,
\* called by who ("worker" or "handler")
SentFrom(who, id, ups) ==
    /\ sentNow' = [i \in 1..Len(ups) |-> [jobId |-> id, update |-> ups[i]]]
    /\ lastUpdate' = IF ups = <<>> THEN lastUpdate
                     ELSE [lastUpdate EXCEPT ![id] = ups[Len(ups)]]
    /\ completedAfterAbort' =
          [completedAfterAbort EXCEPT ![id] =
              @ \/ (abortMid[id] /\ \E i \in 1..Len(ups) : ups[i].type = "completed")]
    /\ passLog' = IF who # "worker" \/ ups = <<>> THEN passLog
                  ELSE IF ups[1].message = "Job processing started"
                  THEN [passLog EXCEPT ![id] = ups]
                  ELSE [passLog EXCEPT ![id] = @ \o ups]
    \* select { case q.updates <- update: ... }: a send on a closed channel panics
    /\ fault' = IF fault = "none" /\ ups # <<>> /\ UpdatesClosed THEN who ELSE fault
    \* ... default: "status update channel full, dropping update"
    /\ nupd' = IF UpdatesClosed \/ nupd + Len(ups) <= MaxUpdates
               THEN nupd + (IF UpdatesClosed THEN 0 ELSE Len(ups))
               ELSE MaxUpdates

\* sendUpdate called by the steps of processJob
Sent(id, ups) == SentFrom("worker", id, ups)

InitProgram ==
    /\ jobsFile = EmptyMap
    /\ convsFile = [x \in {} |-> NoConv]
    /\ jobsMu = {}
    /\ jobs = <<>>
    /\ nextJob = 1
    /\ nextConv = 1
    /\ nreq = 0
    /\ wpc = [w \in Workers |-> "idle"]
    /\ wid = [w \in Workers |-> 0]
    /\ wjob = [w \in Workers |-> NoJob]
    /\ wjobs = [w \in Workers |-> EmptyMap]
    /\ wconv = [w \in Workers |-> NoConv]
    /\ cpc = [c \in Clients |-> "idle"]
    /\ cop = [c \in Clients |-> "none"]
    /\ cid = [c \in Clients |-> 0]
    /\ cjob = [c \in Clients |-> NoJob]
    /\ cconv = [c \in Clients |-> NoConv]
    /\ cread = [c \in Clients |-> NoJob]
    /\ lastUpdate = [j \in JobIds |-> NoUpdate]
    /\ sentNow = <<>>
    /\ passLog = [j \in JobIds |-> <<>>]
    /\ abortMid = [j \in JobIds |-> FALSE]
    /\ completedAfterAbort = [j \in JobIds |-> FALSE]
    /\ resp = [c \in Clients |-> ""]
    /\ enqErr = [c \in Clients |-> ""]
    /\ freshConv = [j \in JobIds |-> 0]
    /\ stop = "no"
    /\ dpc = "run"
    /\ fault = "none"
    /\ nupd = 0
    /\ listeners = [j \in JobIds |-> 0]
    /\ wsc = [k \in Conns |-> "none"]
    /\ wsjob = [k \in Conns |-> 0]
    /\ upc = "idle"
    /\ uid = 0
    /\ ujobs = EmptyMap
    /\ cancelled = FALSE
    /\ fsPath = Json(0)
    /\ fsBak = Absent
    /\ fsTmp = Absent
    /\ fpc = "idle"
    /\ fNew = 0
    /\ fOld = 0
    /\ fLoad = NotLoaded

Init ==
    /\ InitProgram
    /\ fixedLatex = <<>>
    /\ cleans = 0


NoSend == sentNow' = <<>> /\ UNCHANGED <<lastUpdate, passLog, completedAfterAbort, fault, nupd>>

\* ---------------------------------------------------------- Queue: workers
\* a pass that has announced itself and still has steps to run
InPass(w) == wpc[w] \in {"step", "design", "latex", "compile"}

WorkerIdle(w) ==
    /\ wpc' = [wpc EXCEPT ![w] = "idle"]
    /\ wid' = [wid EXCEPT ![w] = 0]
    /\ wjob' = [wjob EXCEPT ![w] = NoJob]
    /\ wjobs' = [wjobs EXCEPT ![w] = EmptyMap]
    /\ wconv' = [wconv EXCEPT ![w] = NoConv]

\* worker: case jobID, ok := <-q.jobs
WorkerReceive(w) ==
    /\ wpc[w] = "idle"
    /\ jobs # <<>>
    /\ wid' = [wid EXCEPT ![w] = Head(jobs)]
    /\ jobs' = Tail(jobs)
    /\ wpc' = [wpc EXCEPT ![w] = "lock"]
    /\ NoSend
    /\ UNCHANGED <<nreq, storeVars, nextJob, nextConv, wjob, wjobs, wconv, clientVars, abortMid, auxVars>>

\* variant: the lock is taken without waiting for the holder (as a read lock would)
LockJobsMuNoWait(p) == jobsMu' = jobsMu \cup {p}

\* s.jobsMu.Lock() as GetJobForUpdate takes it
LockJobsMu(p) ==
    /\ jobsMu = {}
    /\ jobsMu' = jobsMu \cup {p}

\* the job is in a processable state
Processable(j) == j.status = StatusPending \/ j.status = StatusRunning

\* variant: the skipped pass announces itself with a status update
SkipPassAnnounced(w, j) ==
    /\ wjob' = [wjob EXCEPT ![w] = j]
    /\ wpc' = [wpc EXCEPT ![w] = "skip"]
    /\ Sent(wid[w], <<Update(j, "Job skipped", "stage")>>)

\* the job is not processable: processJob logs "skipping" and returns
SkipPass(w, j) ==
    /\ wjob' = [wjob EXCEPT ![w] = j]
    /\ wpc' = [wpc EXCEPT ![w] = "skip"]
    /\ NoSend

\* processJob up to the first step: GetJobForUpdate, the processable check,
\* "Mark as running"
ProcessJob(w) ==
    /\ wpc[w] = "lock"
    /\ IF wid[w] \notin DOMAIN jobsFile
       THEN \* job not found: GetJobForUpdate unlocks and processJob returns
            /\ JobsMuFree
            /\ WorkerIdle(w)
            /\ NoSend
            /\ UNCHANGED jobsMu
       ELSE /\ LockJobsMu(w)
            /\ wjobs' = [wjobs EXCEPT ![w] = jobsFile]
            /\ wid' = wid
            /\ wconv' = wconv
            /\ IF ~Processable(jobsFile[wid[w]])
               THEN SkipPass(w, jobsFile[wid[w]])
               ELSE LET j == [jobsFile[wid[w]] EXCEPT !.status = StatusRunning] IN
                    /\ wjob' = [wjob EXCEPT ![w] = j]
                    /\ wpc' = [wpc EXCEPT ![w] = "step"]
                    /\ Sent(wid[w], <<Update(j, "Job processing started", "stage")>>)
    /\ UNCHANGED <<nreq, jobsFile, convsFile, jobs, nextJob, nextConv, clientVars, abortMid, auxVars>>

\* variant: the pass ends after every step, as if the next step were left to a
\* later pass
AfterStepEndsPass(w, j) ==
    /\ wjob' = [wjob EXCEPT ![w] = j]
    /\ wpc' = [wpc EXCEPT ![w] = "commit"]

\* the tail of the for loop in processJob after a step returned nil:
\* stop unless the job is pending or running, else "Reset status for next step"
AfterStep(w, j) ==
    IF ~Processable(j)
    THEN /\ wjob' = [wjob EXCEPT ![w] = j]
         /\ wpc' = [wpc EXCEPT ![w] = "commit"]
    ELSE /\ wjob' = [wjob EXCEPT ![w] = [j EXCEPT !.status = StatusRunning]]
         /\ wpc' = [wpc EXCEPT ![w] = "step"]

\* a step returned an error: processJob returns it, the deferred commit runs
StepFailed(w, j) ==
    /\ wjob' = [wjob EXCEPT ![w] = j]
    /\ wpc' = [wpc EXCEPT ![w] = "commit"]

\* GetConversationByJobID, and NewConversation + SaveConversation when the
\* job has none; then the step waits for the generation call at position at
LoadConvThen(w, at) ==
    /\ wpc' = [wpc EXCEPT ![w] = at]
    /\ IF ConvsOfJob(wid[w]) = {}
       THEN LET c == NewConversation(nextConv, wid[w]) IN
            /\ wconv' = [wconv EXCEPT ![w] = c]
            /\ convsFile' = Put(convsFile, c.id, c)
            /\ nextConv' = nextConv + 1
       ELSE /\ \E c \in ConvsOfJob(wid[w]) : wconv' = [wconv EXCEPT ![w] = convsFile[c]]
            /\ UNCHANGED <<convsFile, nextConv>>

\* executePromptStep
ExecutePromptStep(w) ==
    LET j  == wjob[w]
        u0 == Update(j, "Processing prompt", "stage") IN
    /\ wpc[w] = "step" /\ j.step = StepPrompt
    /\ IF j.prompt = ""
       THEN LET e == SetError(j, "Empty prompt") IN
            /\ StepFailed(w, e)
            /\ Sent(wid[w], <<u0, Update(e, "Prompt validation failed", "error")>>)
       ELSE IF ~ParseOk(j)
       THEN LET e == SetError(j, "Invalid request") IN
            /\ StepFailed(w, e)
            /\ Sent(wid[w], <<u0, Update(e, "Prompt validation failed", "error")>>)
       ELSE LET a == [AdvanceStep(j) EXCEPT !.status = StatusPending] IN
            /\ AfterStep(w, a)
            /\ Sent(wid[w], <<u0, Update(a, "Prompt validated, moving to design", "stage")>>)
    /\ UNCHANGED <<nreq, storeVars, jobs, nextJob, nextConv, wid, wjobs, wconv, clientVars, abortMid, auxVars>>

\* executeDesignStep / executeLatexStep up to the generation call
BeginGenerate(w, step, at, first, failed) ==
    LET j  == wjob[w]
        u0 == Update(j, first, "stage") IN
    /\ wpc[w] = "step" /\ j.step = step
    /\ IF ~ParseOk(j)
       THEN LET e == SetError(j, "Invalid request") IN
            /\ StepFailed(w, e)
            /\ Sent(wid[w], <<u0, Update(e, failed, "error")>>)
            /\ UNCHANGED <<convsFile, nextConv, wconv>>
       ELSE /\ wjob' = wjob
            /\ LoadConvThen(w, at)
            /\ Sent(wid[w], <<u0>>)
    /\ UNCHANGED <<nreq, jobsFile, jobsMu, jobs, nextJob, wid, wjobs, clientVars, abortMid, auxVars>>

BeginDesignStep(w) ==
    BeginGenerate(w, StepDesign, "design", "Generating design", "Design generation failed")

BeginLatexStep(w) ==
    BeginGenerate(w, StepLatex, "latex", "Generating LaTeX", "LaTeX generation failed")

\* the generation call of a step returned an error
GenerateFailed(w, step, first, retrying, failed, msg) ==
    LET j == wjob[w] IN
    IF CanRetry(j)
    THEN \* retry in place: the step calls itself again and reloads the conversation
         LET r == [ResetToStep(IncrementRetry(j), step) EXCEPT !.status = StatusRunning] IN
         /\ wjob' = [wjob EXCEPT ![w] = r]
         /\ Sent(wid[w], <<Update(r, retrying, "retry"), Update(r, first, "stage")>>)
         /\ LoadConvThen(w, wpc[w])
    ELSE LET e == SetError(j, msg) IN
         /\ StepFailed(w, e)
         /\ Sent(wid[w], <<Update(e, failed, "error")>>)
         /\ UNCHANGED <<convsFile, nextConv, wconv>>

\* the generation call returned text: GenerateDesign / GenerateLatex add the
\* user and assistant messages, the step stores the text and saves the conversation
GenerateOk(w, ask, text, done) ==
    LET j == wjob[w]
        c == AddMessage(AddMessage(wconv[w], "user", ask), "assistant", text)
        g == IF j.step = StepDesign THEN [j EXCEPT !.design = text]
                                    ELSE [j EXCEPT !.latex = text]
        a == [AdvanceStep(g) EXCEPT !.status = StatusPending] IN
    /\ Len(wconv[w].messages) + 2 <= MaxMsgs
    /\ convsFile' = Put(convsFile, c.id, c)
    /\ wconv' = [wconv EXCEPT ![w] = c]
    /\ Sent(wid[w], <<Update(g, done, "stage")>>)
    /\ AfterStep(w, a)
    /\ UNCHANGED nextConv

FinishDesignStep(w) ==
    /\ wpc[w] = "design"
    /\ \/ GenerateOk(w, "design-prompt", "design", "Design generated, advancing to LaTeX")
       \/ GenerateFailed(w, StepDesign, "Generating design",
                         "Design generation failed, retrying",
                         "Design generation failed", "Design generation failed")
    /\ UNCHANGED <<nreq, jobsFile, jobsMu, jobs, nextJob, wid, wjobs, clientVars, abortMid, auxVars>>

FinishLatexStep(w) ==
    /\ wpc[w] = "latex"
    /\ \/ GenerateOk(w, "latex-prompt", "latex", "LaTeX generated, compiling PDF")
       \/ GenerateFailed(w, StepLatex, "Generating LaTeX",
                         "LaTeX generation failed, retrying",
                         "LaTeX generation failed", "LaTeX generation failed")
    /\ UNCHANGED <<nreq, jobsFile, jobsMu, jobs, nextJob, wid, wjobs, clientVars, abortMid, auxVars>>

\* executeCompileStep up to the typesetter call
BeginCompileStep(w) ==
    LET j  == wjob[w]
        u0 == Update(j, "Compiling LaTeX to PDF", "stage") IN
    /\ wpc[w] = "step" /\ j.step = StepCompile
    /\ IF j.latex = ""
       THEN LET e == SetError(j, "No LaTeX available for compilation") IN
            /\ StepFailed(w, e)
            /\ Sent(wid[w], <<u0, Update(e, "Compilation failed", "error")>>)
       ELSE /\ wjob' = wjob
            /\ wpc' = [wpc EXCEPT ![w] = "compile"]
            /\ Sent(wid[w], <<u0>>)
    /\ UNCHANGED <<nreq, storeVars, jobs, nextJob, nextConv, wid, wjobs, wconv, clientVars, abortMid, auxVars>>

\* the typesetter reported an error
CompileFailed(w) ==
    LET e == SetError(wjob[w], "LaTeX compilation failed") IN
    /\ StepFailed(w, e)
    /\ Sent(wid[w], <<Update(e, "Compilation failed", "error")>>)

\* variant: the completed event carries no pdf_url
CompileOkBareEvent(w) ==
    LET d == SetCompleted(wjob[w], PdfURL(wid[w])) IN
    /\ AfterStep(w, d)
    /\ Sent(wid[w], <<Update(d, "Compilation completed successfully", "completed")>>)

\* the typesetter produced the PDF
CompileOk(w) ==
    LET pdfURL == PdfURL(wid[w])
        d == SetCompleted(wjob[w], pdfURL) IN
    /\ AfterStep(w, d)
    /\ Sent(wid[w], <<Completed(d, "Compilation completed successfully", pdfURL)>>)

FinishCompileStep(w) ==
    /\ wpc[w] = "compile"
    /\ \/ CompileOk(w)
       \/ CompileFailed(w)
    /\ UNCHANGED <<nreq, storeVars, jobs, nextJob, nextConv, wid, wjobs, wconv, clientVars, abortMid, auxVars>>

\* case StepDone (and default): processJob returns
StepDoneReturn(w) ==
    /\ wpc' = [wpc EXCEPT ![w] = "commit"]
    /\ NoSend
    /\ UNCHANGED <<nreq, storeVars, jobs, nextJob, nextConv, wid, wjob, wjobs, wconv, clientVars, abortMid, auxVars>>

\* the switch on job.CurrentStep in the loop of processJob
RunStep(w) ==
    /\ wpc[w] = "step"
    /\ CASE wjob[w].step = StepPrompt  -> ExecutePromptStep(w)
         [] wjob[w].step = StepDesign  -> BeginDesignStep(w)
         [] wjob[w].step = StepLatex   -> BeginLatexStep(w)
         [] wjob[w].step = StepCompile -> BeginCompileStep(w)
         [] OTHER                      -> StepDoneReturn(w)

\* variant: the closure stores the job and returns with the mutex held
CommitKeepsLock(w) ==
    /\ wpc[w] \in {"commit", "skip"}
    /\ jobsFile' = Put(wjobs[w], wid[w], wjob[w])
    /\ jobsMu' = jobsMu
    /\ WorkerIdle(w)
    /\ NoSend
    /\ UNCHANGED <<nreq, convsFile, jobs, nextJob, nextConv, clientVars, abortMid, auxVars>>

\* the commit closure of GetJobForUpdate, run by processJob's defer
Commit(w) ==
    /\ wpc[w] \in {"commit", "skip"}
    /\ jobsFile' = Put(wjobs[w], wid[w], wjob[w])
    /\ jobsMu' = jobsMu \ {w}
    /\ WorkerIdle(w)
    /\ NoSend
    /\ UNCHANGED <<nreq, convsFile, jobs, nextJob, nextConv, clientVars, abortMid, auxVars>>

WorkerNext ==
    \E w \in Workers :
        \/ WorkerReceive(w)
        \/ ProcessJob(w)
        \/ RunStep(w)
        \/ FinishDesignStep(w)
        \/ FinishLatexStep(w)
        \/ FinishCompileStep(w)
        \/ Commit(w)


\* ------------------------------------------------------ control handlers
EnqueueOps  == {"create", "designApprove", "latexApprove", "latexEdit", "retry"}
ConvOps     == {"create", "designRefine", "latexFix", "retry"}
ControlOps  == {"designApprove", "designRefine", "latexApprove", "latexEdit",
                "latexFix", "abort", "retry"}

ClientIdle(c) ==
    /\ cpc' = [cpc EXCEPT ![c] = "idle"]
    /\ cop' = [cop EXCEPT ![c] = "none"]
    /\ cid' = [cid EXCEPT ![c] = 0]
    /\ cjob' = [cjob EXCEPT ![c] = NoJob]
    /\ cconv' = [cconv EXCEPT ![c] = NoConv]
    /\ cread' = [cread EXCEPT ![c] = NoJob]

\* the handler returns response r
Respond(c, r) ==
    /\ ClientIdle(c)
    /\ resp' = [resp EXCEPT ![c] = r]
    /\ UNCHANGED enqErr

ClientAt(c, at, j) ==
    /\ cpc' = [cpc EXCEPT ![c] = at]
    /\ cjob' = [cjob EXCEPT ![c] = j]
    /\ cread' = [cread EXCEPT ![c] = jobsFile[cid[c]]]
    /\ UNCHANGED <<cop, cid, cconv, resp, enqErr>>

\* POST /api/v1/sheets/create arrives: pipeline.NewJob
CreateCalled(c) ==
    /\ cpc[c] = "idle"
    /\ nextJob <= NumJobs
    /\ nextConv <= MaxConvs
    /\ cpc' = [cpc EXCEPT ![c] = "save"]
    /\ cop' = [cop EXCEPT ![c] = "create"]
    /\ cid' = [cid EXCEPT ![c] = nextJob]
    /\ cjob' = [cjob EXCEPT ![c] = NewJob("json", DefaultMaxRetries)]
    /\ resp' = [resp EXCEPT ![c] = ""]
    /\ enqErr' = [enqErr EXCEPT ![c] = ""]
    /\ nextJob' = nextJob + 1
    /\ NoSend
    /\ UNCHANGED <<nreq, storeVars, jobs, nextConv, workerVars, cconv, cread, abortMid, auxVars>>

\* a request of the pipeline API arrives for a job id handed out earlier
ControlCalled(c) ==
    /\ cpc[c] = "idle"
    /\ nreq < MaxReqs
    /\ nreq' = nreq + 1
    /\ \E op \in ControlOps, id \in 1..(nextJob - 1) :
          /\ op = "retry" => nextConv <= MaxConvs
          /\ cpc' = [cpc EXCEPT ![c] = "get"]
          /\ cop' = [cop EXCEPT ![c] = op]
          /\ cid' = [cid EXCEPT ![c] = id]
          /\ resp' = [resp EXCEPT ![c] = ""]
          /\ enqErr' = [enqErr EXCEPT ![c] = ""]
          /\ abortMid' = [abortMid EXCEPT ![id] =
                             @ \/ (op = "abort" /\ \E w \in Workers : InPass(w) /\ wid[w] = id)]
    /\ NoSend
    /\ UNCHANGED <<storeVars, jobs, nextJob, nextConv, workerVars, cjob, cconv, cread, auxVars>>

\* POST /api/v1/sheets/queue/:id : Store.DeleteJob
DeleteJob(c) ==
    /\ cpc[c] = "idle"
    /\ nreq < MaxReqs
    /\ nreq' = nreq + 1
    /\ JobsMuFree
    /\ \E id \in 1..(nextJob - 1) : jobsFile' = Remove(jobsFile, id)
    /\ NoSend
    /\ UNCHANGED <<convsFile, jobsMu, jobs, nextJob, nextConv, workerVars, clientVars, abortMid, auxVars>>

\* variant: Retry is accepted in every state
RetryAllowedAlways(j) == TRUE

\* "Only allow retrying failed or aborted jobs"
RetryAllowed(j) == j.status = StatusError \/ j.status = StatusAborted

\* the job as handlePipelineRetry resets it
RetryReset(j) ==
    [j EXCEPT !.status = StatusPending, !.step = StepPrompt, !.retryCount = 0,
              !.errorMessage = "", !.errorLog = "", !.design = "", !.latex = "",
              !.pdfUrl = <<>>]

\* getPipelineJobForUser (Store.GetJob under the read lock) and the part of
\* the handler that only touches the request and the returned *Job
GetJobForUser(c) ==
    /\ cpc[c] = "get"
    /\ JobsMuFree
    /\ IF cid[c] \notin DOMAIN jobsFile
       THEN \* job is nil: the handler faults on its first field access
            Respond(c, "job not found")
       ELSE LET j == jobsFile[cid[c]] IN
            CASE cop[c] = "designApprove" ->
                    ClientAt(c, "save", [j EXCEPT !.step = StepLatex, !.status = StatusPending])
              [] cop[c] = "latexApprove" ->
                    ClientAt(c, "save", [j EXCEPT !.step = StepCompile, !.status = StatusPending])
              [] cop[c] = "latexEdit" ->
                    \/ Respond(c, "latex required")       \* empty body: 400
                    \/ ClientAt(c, "save", [j EXCEPT !.latex = "edited", !.step = StepCompile,
                                                     !.status = StatusPending])
              [] cop[c] = "abort" ->
                    ClientAt(c, "save", [j EXCEPT !.status = StatusAborted])
              [] cop[c] = "retry" ->
                    IF ~RetryAllowed(j)
                    THEN Respond(c, "cannot retry job in state")     \* 400
                    ELSE ClientAt(c, "save", RetryReset(j))
              [] OTHER ->                  \* designRefine, latexFix
                    \/ Respond(c, "field required")       \* empty body: 400
                    \/ ClientAt(c, "conv", j)
    /\ NoSend
    /\ UNCHANGED <<nreq, storeVars, jobs, nextJob, nextConv, workerVars, abortMid, auxVars>>

\* handlePipelineDesignRefine / handlePipelineLatexFix: GetConversationByJobID,
\* or NewConversation + SaveConversation when the job has none
LoadConversation(c) ==
    /\ cpc[c] = "conv"
    /\ cpc' = [cpc EXCEPT ![c] = "gen"]
    /\ IF ConvsOfJob(cid[c]) = {}
       THEN LET n == NewConversation(nextConv, cid[c]) IN
            /\ cconv' = [cconv EXCEPT ![c] = n]
            /\ convsFile' = Put(convsFile, n.id, n)
            /\ nextConv' = nextConv + 1
       ELSE /\ \E k \in ConvsOfJob(cid[c]) : cconv' = [cconv EXCEPT ![c] = convsFile[k]]
            /\ UNCHANGED <<convsFile, nextConv>>
    /\ NoSend
    /\ UNCHANGED <<nreq, jobsFile, jobsMu, jobs, nextJob, workerVars, cop, cid, cjob, cread, resp,
                   enqErr, abortMid, auxVars>>

\* variant: only the answer is recorded in the conversation
FixLatexAnswerOnly(conv) == AddMessage(conv, "assistant", "fixed")

\* FixLatex on conv when the model answers: the fix prompt is added as a user
\* message and the cleaned answer as an assistant message
FixLatex(conv) ==
    AddMessage(AddMessage(conv, "user", "fix-prompt"), "assistant", "fixed")

\* RefinePrompt / FixLatex return, and the handler mutates its *Job
Generated(c) ==
    /\ cpc[c] = "gen"
    /\ \/ Respond(c, "generation failed")  \* 500, nothing stored
       \/ /\ Len(cconv[c].messages) + 2 <= MaxMsgs
          /\ cpc' = [cpc EXCEPT ![c] = "save"]
          /\ UNCHANGED <<cop, cid, cread, resp, enqErr>>
          /\ IF cop[c] = "designRefine"
             THEN /\ cconv' = [cconv EXCEPT ![c] =
                        AddMessage(AddMessage(@, "user", "refine-prompt"), "assistant", "refined")]
                  /\ cjob' = [cjob EXCEPT ![c] = [@ EXCEPT !.design = "refined",
                                   !.status = StatusWaitingManual, !.step = StepDesign]]
             ELSE /\ cconv' = [cconv EXCEPT ![c] = FixLatex(@)]
                  /\ cjob' = [cjob EXCEPT ![c] = [@ EXCEPT !.latex = "fixed",
                                   !.status = StatusWaitingManual, !.step = StepLatex]]
    /\ NoSend
    /\ UNCHANGED <<nreq, storeVars, jobs, nextJob, nextConv, workerVars, abortMid, auxVars>>

\* Store.SaveJob: upsert of the handler's *Job under the write lock
SaveJob(c) ==
    /\ cpc[c] = "save"
    /\ JobsMuFree
    /\ jobsFile' = Put(jobsFile, cid[c], cjob[c])
    /\ cpc' = [cpc EXCEPT ![c] = IF cop[c] = "newjob" THEN "enq"
                                 ELSE IF cop[c] \in ConvOps THEN "saveconv" ELSE "emit"]
    /\ NoSend
    /\ UNCHANGED <<nreq, convsFile, jobsMu, jobs, nextJob, nextConv, workerVars,
                   cop, cid, cjob, cconv, cread, resp, enqErr, abortMid, auxVars>>

\* Store.SaveConversation: of a fresh conversation (create, retry) or of the
\* one the handler extended (refine, fix)
SaveConversation(c) ==
    /\ cpc[c] = "saveconv"
    /\ IF cop[c] \in {"create", "retry"}
       THEN /\ convsFile' = Put(convsFile, nextConv, NewConversation(nextConv, cid[c]))
            /\ nextConv' = nextConv + 1
            /\ freshConv' = IF cop[c] = "retry"
                            THEN [freshConv EXCEPT ![cid[c]] = nextConv]
                            ELSE freshConv
       ELSE /\ convsFile' = Put(convsFile, cconv[c].id, cconv[c])
            /\ UNCHANGED <<nextConv, freshConv>>
    /\ cpc' = [cpc EXCEPT ![c] = IF cop[c] = "create" THEN "enq" ELSE "emit"]
    /\ NoSend
    /\ UNCHANGED <<nreq, jobsFile, jobsMu, jobs, nextJob, workerVars, cop, cid, cjob, cconv, cread,
                   resp, enqErr, abortMid, stopVars, fileVars, wsVars, callerVars, cleanVars, ctxVars>>

\* the StatusUpdate each handler passes to Queue.EmitUpdate
HandlerUpdate(op, j) ==
    CASE op = "designApprove" -> Update(j, "Design approved, generating LaTeX", "stage")
      [] op = "designRefine"  -> Review(j, "Design refined - review required",
                                        <<"approve", "refine", "regenerate">>)
      [] op = "latexApprove"  -> Update(j, "LaTeX approved, starting compilation", "stage")
      [] op = "latexEdit"     -> Update(j, "LaTeX updated, starting compilation", "stage")
      [] op = "latexFix"      -> Review(j, "LaTeX fixed - review required",
                                        <<"approve", "edit", "fix">>)
      [] op = "abort"         -> Update(j, "Job aborted", "error")
      [] OTHER                -> Update(j, "Job retrying from scratch", "stage")

\* Queue.EmitUpdate
EmitUpdate(c) ==
    /\ cpc[c] = "emit"
    /\ SentFrom("handler", cid[c], <<HandlerUpdate(cop[c], cjob[c])>>)
    /\ IF cop[c] \in EnqueueOps
       THEN /\ cpc' = [cpc EXCEPT ![c] = "enq"]
            /\ UNCHANGED <<cop, cid, cjob, cconv, cread, resp, enqErr>>
       ELSE Respond(c, IF cop[c] = "abort" THEN "aborted" ELSE "updated")
    /\ UNCHANGED <<nreq, storeVars, jobs, nextJob, nextConv, workerVars, abortMid, auxVars>>

\* what the handler of op answers when Queue.Enqueue returned err ("" for
\* nil): Create and Retry check the error, the approve and edit handlers
\* discard it (_ = Enqueue(job.ID))
EnqueueResponse(op, err) ==
    CASE op = "create" -> IF err = "" THEN "queued" ELSE "Failed to enqueue sheet"
      [] op = "retry"  -> IF err = "" THEN "retrying" ELSE "failed to enqueue retry"
      [] OTHER         -> "queued"

\* Queue.Enqueue returns err and the handler answers
EnqueueReturns(c, err) ==
    /\ ClientIdle(c)
    /\ enqErr' = [enqErr EXCEPT ![c] = err]
    /\ resp' = [resp EXCEPT ![c] = EnqueueResponse(cop[c], err)]

\* Queue.Enqueue, "Verify job exists": Store.GetJob under the read lock, which
\* waits while a pass holds the write lock
Enqueue(c) ==
    /\ cpc[c] = "enq"
    /\ JobsMuFree
    /\ IF cid[c] \in DOMAIN jobsFile
       THEN /\ cpc' = [cpc EXCEPT ![c] = "send"]
            /\ UNCHANGED <<cop, cid, cjob, cconv, cread, resp, enqErr>>
       ELSE EnqueueReturns(c, "cannot enqueue non-existent job")
    /\ NoSend
    /\ UNCHANGED <<nreq, storeVars, jobs, nextJob, nextConv, workerVars, abortMid, auxVars>>

\* variant: a plain send q.jobs <- jobID, which waits for room in the channel
EnqueueSendWaits(c) ==
    /\ cpc[c] = "send"
    /\ Len(jobs) < MaxQueue
    /\ jobs' = Append(jobs, cid[c])
    /\ EnqueueReturns(c, "")
    /\ NoSend

\* Queue.Enqueue, select { case q.jobs <- jobID: return nil; default: return
\* "queue is full" }; a send on a closed channel panics
EnqueueSend(c) ==
    /\ cpc[c] = "send"
    /\ IF JobsClosed
       THEN /\ fault' = IF fault = "none" THEN "handler" ELSE fault
            /\ Respond(c, "panic")
            /\ jobs' = jobs
       ELSE /\ fault' = fault
            /\ jobs' = IF Len(jobs) < MaxQueue THEN Append(jobs, cid[c]) ELSE jobs
            /\ EnqueueReturns(c, IF Len(jobs) < MaxQueue THEN "" ELSE "queue is full")
    /\ sentNow' = <<>>
    /\ UNCHANGED <<lastUpdate, passLog, completedAfterAbort, nupd>>

\* the handler's call of Queue.Enqueue returns
EnqueueReturn(c) ==
    /\ EnqueueSend(c)
    /\ UNCHANGED <<nreq, storeVars, nextJob, nextConv, workerVars, abortMid, auxVars>>

ClientNext ==
    \E c \in Clients :
        \/ CreateCalled(c)
        \/ ControlCalled(c)
        \/ DeleteJob(c)
        \/ GetJobForUser(c)
        \/ LoadConversation(c)
        \/ Generated(c)
        \/ SaveJob(c)
        \/ SaveConversation(c)
        \/ EmitUpdate(c)
        \/ Enqueue(c)
        \/ EnqueueReturn(c)

\* statusUpdateHandler: case update, ok := <-q.updates with ok true; the
\* update is logged
Dispatch ==
    /\ dpc = "run"
    /\ nupd > 0
    /\ nupd' = nupd - 1
    /\ sentNow' = <<>>
    /\ UNCHANGED <<lastUpdate, passLog, completedAfterAbort, fault, pipelineVars, stopVars, fileVars, wsVars, callerVars, cleanVars, ctxVars>>

Next == WorkerNext \/ ClientNext \/ Dispatch

Spec == Init /\ [][Next]_vars

\* ------------------------------------------------------------ Queue.Stop
\* Stop is called: close(q.jobs)
StopCalled ==
    /\ stop = "no"
    /\ stop' = "jobs"
    /\ NoSend
    /\ UNCHANGED <<pipelineVars, dpc, fileVars, wsVars, callerVars, cleanVars, ctxVars>>

\* Stop: close(q.updates), then q.wg.Wait()
StopCloseUpdates ==
    /\ stop = "jobs"
    /\ stop' = "wait"
    /\ NoSend
    /\ UNCHANGED <<pipelineVars, dpc, fileVars, wsVars, callerVars, cleanVars, ctxVars>>

\* worker: jobID, ok := <-q.jobs with ok false (closed and drained): return
WorkerExit(w) ==
    /\ wpc[w] = "idle"
    /\ JobsClosed /\ jobs = <<>>
    /\ wpc' = [wpc EXCEPT ![w] = "exited"]
    /\ NoSend
    /\ UNCHANGED <<nreq, storeVars, jobs, nextJob, nextConv, wid, wjob, wjobs, wconv,
                   clientVars, abortMid, auxVars>>

\* statusUpdateHandler: update, ok := <-q.updates with ok false: return
DispatcherExit ==
    /\ dpc = "run"
    /\ UpdatesClosed /\ nupd = 0
    /\ dpc' = "exited"
    /\ NoSend
    /\ UNCHANGED <<pipelineVars, stop, fileVars, wsVars, callerVars, cleanVars, ctxVars>>

\* Stop: q.wg.Wait() returns once the workers and the dispatcher are done
StopReturn ==
    /\ stop = "wait"
    /\ dpc = "exited"
    /\ \A w \in Workers : wpc[w] = "exited"
    /\ stop' = "returned"
    /\ NoSend
    /\ UNCHANGED <<pipelineVars, dpc, fileVars, wsVars, callerVars, cleanVars, ctxVars>>

\* the program with Stop: a panic ends the process
NextStop ==
    /\ fault = "none"
    /\ \/ Next
       \/ StopCalled
       \/ StopCloseUpdates
       \/ \E w \in Workers : WorkerExit(w)
       \/ DispatcherExit
       \/ StopReturn

SpecStop == Init /\ [][NextStop]_vars

\* --------------------------------------------- clients of the package
\* the prompts a client of the package may pass to NewJob: none, a plain
\* text, a serialized request
Prompts == {"", "text", "json"}

\* a client of the package creates a job as the README does:
\* job := pipeline.NewJob(user, prompt, 3); store.SaveJob(job);
\* queue.Enqueue(job.ID)
PackageNewJob(c) ==
    /\ cpc[c] = "idle"
    /\ nextJob <= NumJobs
    /\ cpc' = [cpc EXCEPT ![c] = "save"]
    /\ cop' = [cop EXCEPT ![c] = "newjob"]
    /\ cid' = [cid EXCEPT ![c] = nextJob]
    /\ \E prompt \in Prompts :
          cjob' = [cjob EXCEPT ![c] = NewJob(prompt, DefaultMaxRetries)]
    /\ resp' = [resp EXCEPT ![c] = ""]
    /\ enqErr' = [enqErr EXCEPT ![c] = ""]
    /\ nextJob' = nextJob + 1
    /\ NoSend
    /\ UNCHANGED <<nreq, storeVars, jobs, nextConv, workerVars, cconv, cread, abortMid, auxVars>>

NextPackage == Next \/ \E c \in Clients : PackageNewJob(c)

SpecPackage == Init /\ [][NextPackage]_vars

\* ------------------------------------------ deletion beside a request
\* POST /api/v1/sheets/queue/:id served while another handler is between
\* its Store calls: Store.DeleteJob under the write lock
DeleteJobBeside ==
    /\ nreq < MaxReqs
    /\ nreq' = nreq + 1
    /\ JobsMuFree
    /\ \E id \in 1..(nextJob - 1) : jobsFile' = Remove(jobsFile, id)
    /\ NoSend
    /\ UNCHANGED <<convsFile, jobsMu, jobs, nextJob, nextConv, workerVars, clientVars, abortMid, auxVars>>

NextDelete == Next \/ DeleteJobBeside

SpecDelete == Init /\ [][NextDelete]_vars

\* ------------------------------------------------ failures of the Store
\* GetJobForUpdate: loadJobsUnsafe returns an error; the mutex is unlocked
\* and processJob returns "failed to lock job"
GetJobForUpdateLoadFails(w) ==
    /\ wpc[w] = "lock"
    /\ JobsMuFree
    /\ WorkerIdle(w)
    /\ NoSend
    /\ UNCHANGED <<nreq, storeVars, jobs, nextJob, nextConv, clientVars, abortMid, auxVars>>

\* variant: the closure returns the error of the save without unlocking
CommitSaveFailsKeepsLock(w) ==
    /\ wpc[w] \in {"commit", "skip"}
    /\ WorkerIdle(w)
    /\ NoSend
    /\ UNCHANGED <<nreq, storeVars, jobs, nextJob, nextConv, clientVars, abortMid, auxVars>>

\* the commit closure when saveJobsUnsafe returns an error: the file keeps
\* its contents, the mutex is unlocked, processJob logs "Failed to commit"
CommitSaveFails(w) ==
    /\ wpc[w] \in {"commit", "skip"}
    /\ jobsMu' = jobsMu \ {w}
    /\ WorkerIdle(w)
    /\ NoSend
    /\ UNCHANGED <<nreq, jobsFile, convsFile, jobs, nextJob, nextConv, clientVars, abortMid, auxVars>>

NextStoreFails ==
    \/ Next
    \/ \E w \in Workers :
          \/ GetJobForUpdateLoadFails(w)
          \/ CommitSaveFails(w)

SpecStoreFails == Init /\ [][NextStoreFails]_vars

\* ------------------------------------------------ jobs of other requests
\* the id of a job of another request, which was created, enqueued and then
\* deleted while its id was still in the channel
GoneJob == NumJobs + 1

\* POST /api/v1/sheets/create and POST /api/v1/sheets/queue/:id served for
\* that job: Queue.Enqueue has put its id in the channel, Store.DeleteJob has
\* removed it from the store
OtherJobEnqueued ==
    /\ nreq < MaxReqs
    /\ nreq' = nreq + 1
    /\ JobsMuFree
    /\ Len(jobs) < MaxQueue
    /\ jobs' = Append(jobs, GoneJob)
    /\ NoSend
    /\ UNCHANGED <<storeVars, nextJob, nextConv, workerVars, clientVars, abortMid, auxVars>>

NextBacklog == Next \/ OtherJobEnqueued

SpecBacklog == Init /\ [][NextBacklog]_vars

\* ------------------------------------------------ context cancellation
\* the owner of the queue cancels the context passed to Start
CancelCalled ==
    /\ ~cancelled
    /\ cancelled' = TRUE
    /\ NoSend
    /\ UNCHANGED <<pipelineVars, stopVars, fileVars, wsVars, callerVars, cleanVars>>

\* worker: case <-ctx.Done(): return. The select chooses among the ready
\* cases, so a worker may still receive a job after the cancellation
WorkerCtxDone(w) ==
    /\ wpc[w] = "idle"
    /\ cancelled
    /\ wpc' = [wpc EXCEPT ![w] = "exited"]
    /\ NoSend
    /\ UNCHANGED <<nreq, storeVars, jobs, nextJob, nextConv, wid, wjob, wjobs, wconv,
                   clientVars, abortMid, auxVars>>

\* statusUpdateHandler: case <-ctx.Done(): return
DispatcherCtxDone ==
    /\ dpc = "run"
    /\ cancelled
    /\ dpc' = "exited"
    /\ NoSend
    /\ UNCHANGED <<pipelineVars, stop, fileVars, wsVars, callerVars, cleanVars, ctxVars>>

\* the program with a cancellable context
NextCancel ==
    \/ Next
    \/ CancelCalled
    \/ \E w \in Workers : WorkerCtxDone(w)
    \/ DispatcherCtxDone

SpecCancel == Init /\ [][NextCancel]_vars

\* --------------------------------------- a caller of GetJobForUpdate
\* Store.GetJobForUpdate(id) for a stored job: s.jobsMu.Lock(), the jobs are
\* loaded and the commit closure captures them
CallerGetJobForUpdate ==
    /\ upc = "idle"
    /\ LockJobsMu(Caller)
    /\ \E id \in DOMAIN jobsFile : uid' = id
    /\ ujobs' = jobsFile
    /\ upc' = "locked"
    /\ NoSend
    /\ UNCHANGED <<nreq, jobsFile, convsFile, jobs, nextJob, nextConv, workerVars, clientVars,
                   abortMid, freshConv, stopVars, fileVars, wsVars, cleanVars, ctxVars>>

\* the commit closure: jobs[id] = job; saveJobsUnsafe(jobs); s.jobsMu.Unlock().
\* Unlock of a mutex that is not locked is a fatal error; otherwise it
\* releases the lock, whoever took it
CommitClosure ==
    /\ jobsFile' = Put(ujobs, uid, ujobs[uid])
    /\ jobsMu' = {}
    /\ fault' = IF jobsMu = {} /\ fault = "none" THEN "caller" ELSE fault
    /\ sentNow' = <<>>
    /\ UNCHANGED <<lastUpdate, passLog, completedAfterAbort, nupd>>
    /\ UNCHANGED <<nreq, convsFile, jobs, nextJob, nextConv, workerVars, clientVars,
                   abortMid, freshConv, stopVars, fileVars, wsVars, cleanVars, ctxVars, uid, ujobs>>

\* the caller invokes commit
CallerCommit ==
    /\ upc = "locked"
    /\ upc' = "committed"
    /\ CommitClosure

\* the caller invokes commit a second time
CallerCommitAgain ==
    /\ upc = "committed"
    /\ upc' = "done"
    /\ CommitClosure

\* the program with such a caller, up to the second call of its commit
NextCommit ==
    /\ upc # "done"
    /\ \/ Next
       \/ CallerGetJobForUpdate
       \/ CallerCommit
       \/ CallerCommitAgain

SpecCommit == Init /\ [][NextCommit]_vars

\* ------------------------------------------------------------ cleanLatex
MaxLen    == 4      \* tokens in a model answer
MaxCleans == 2      \* applications of cleanLatex to one answer

\* the tokens of an answer: the code fence (three backquotes), the word
\* latex, a newline, a space, and any other character
Fence  == "fence"
NL     == "newline"
Tokens == {Fence, "latex", NL, " ", "x"}
Texts  == UNION {[1..n -> Tokens] : n \in 0..MaxLen}

\* strings.TrimPrefix
TrimPrefix(s, prefix) ==
    IF Len(s) >= Len(prefix) /\ SubSeq(s, 1, Len(prefix)) = prefix
    THEN SubSeq(s, Len(prefix) + 1, Len(s))
    ELSE s

\* strings.TrimSuffix
TrimSuffix(s, suffix) ==
    IF Len(s) >= Len(suffix) /\ SubSeq(s, Len(s) - Len(suffix) + 1, Len(s)) = suffix
    THEN SubSeq(s, 1, Len(s) - Len(suffix))
    ELSE s

IsSpace(t) == t \in {" ", NL}

RECURSIVE TrimLeft(_)
TrimLeft(s) == IF s # <<>> /\ IsSpace(Head(s)) THEN TrimLeft(Tail(s)) ELSE s

RECURSIVE TrimRight(_)
TrimRight(s) ==
    IF s # <<>> /\ IsSpace(s[Len(s)]) THEN TrimRight(SubSeq(s, 1, Len(s) - 1)) ELSE s

\* strings.TrimSpace
TrimSpace(s) == TrimRight(TrimLeft(s))

\* cleanLatex: the six trims in the order of the code, then TrimSpace
cleanLatex(latex) ==
    LET l1 == TrimPrefix(latex, <<Fence, "latex", NL>>)
        l2 == TrimPrefix(l1, <<Fence, "latex">>)
        l3 == TrimPrefix(l2, <<Fence, NL>>)
        l4 == TrimPrefix(l3, <<Fence>>)
        l5 == TrimSuffix(l4, <<NL, Fence>>)
        l6 == TrimSuffix(l5, <<Fence>>) IN
    TrimSpace(l6)

\* the answers cleanLatex may be given
InitClean ==
    /\ InitProgram
    /\ fixedLatex \in Texts
    /\ cleans = 0

\* fixedLatex = cleanLatex(fixedLatex)
Clean ==
    /\ cleans < MaxCleans
    /\ fixedLatex' = cleanLatex(fixedLatex)
    /\ cleans' = cleans + 1
    /\ NoSend
    /\ UNCHANGED <<pipelineVars, stopVars, fileVars, wsVars, callerVars, ctxVars>>

SpecClean == InitClean /\ [][Clean]_vars

\* ------------------------------------------- websocket job subscriptions
\* GET /api/v1/ws/job/:jobid on connection k: registerPipelineJobListener
\* calls Queue.RegisterJobListener, q.listeners[jobID] = cb
Subscribe(k) ==
    /\ wsc[k] = "none"
    /\ \E j \in JobIds :
          /\ wsjob' = [wsjob EXCEPT ![k] = j]
          /\ listeners' = [listeners EXCEPT ![j] = k]
    /\ wsc' = [wsc EXCEPT ![k] = "init"]
    /\ NoSend
    /\ UNCHANGED <<pipelineVars, stopVars, fileVars, callerVars, cleanVars, ctxVars>>

\* registerPipelineJobListener: Store.GetJob under the read lock, and the
\* initial status message written to the connection when the job exists
WsInitialStatus(k) ==
    /\ wsc[k] = "init"
    /\ JobsMuFree
    /\ wsc' = [wsc EXCEPT ![k] = "read"]
    /\ NoSend
    /\ UNCHANGED <<pipelineVars, stopVars, fileVars, callerVars, cleanVars, ctxVars, listeners, wsjob>>

\* the client disconnects: c.ReadMessage returns an error, the loop breaks
\* and registerPipelineJobListener returns
Disconnect(k) ==
    /\ wsc[k] = "read"
    /\ wsc' = [wsc EXCEPT ![k] = "closed"]
    /\ NoSend
    /\ UNCHANGED <<pipelineVars, stopVars, fileVars, callerVars, cleanVars, ctxVars, listeners, wsjob>>

\* sendUpdate: the callbacks invoked for the updates of the step just taken,
\* as pairs <<connection, update>> in the order of the calls
Invoked ==
    [i \in 1..Len(sentNow') |-> <<listeners[sentNow'[i].jobId], sentNow'[i].update>>]

WsNext ==
    \E k \in Conns :
        \/ Subscribe(k)
        \/ WsInitialStatus(k)
        \/ Disconnect(k)

NextWs == Next \/ WsNext

SpecWs == Init /\ [][NextWs]_vars

\* ------------------------------------------------- the files of the Store
MaxSnaps == 3      \* saves of the collection begun in one run

\* loadJobsUnsafe / loadConversationsUnsafe on files with contents path, bak
LoadFile(path, bak) ==
    IF path = Absent THEN LoadError                \* os.ReadFile fails
    ELSE IF path.kind = "json" THEN path
    ELSE IF bak.kind = "json" THEN bak             \* empty or unparsable: the backup
    ELSE LoadError

restVars == <<pipelineVars, stopVars, wsVars, callerVars, cleanVars, ctxVars>>

\* SaveJob / SaveConversation / commit: the collection is loaded, changed and
\* marshalled; atomicWriteFile begins
SaveBegin ==
    /\ fpc = "idle"
    /\ fNew < MaxSnaps
    /\ LoadFile(fsPath, fsBak) # LoadError
    /\ fOld' = LoadFile(fsPath, fsBak).snap
    /\ fNew' = fNew + 1
    /\ fLoad' = NotLoaded
    /\ fpc' = "create"
    /\ UNCHANGED <<fsPath, fsBak, fsTmp, restVars>>
    /\ NoSend

\* atomicWriteFile returns err: the deferred os.Remove(tmp.Name()) runs
WriteFails ==
    /\ fsTmp' = Absent
    /\ fpc' = "idle"

\* os.CreateTemp(dir, "tmp-*")
CreateTemp ==
    /\ fpc = "create"
    /\ \/ fsTmp' = EmptyFile /\ fpc' = "write"
       \/ fsTmp' = fsTmp /\ fpc' = "idle"        \* err: nothing to remove
    /\ UNCHANGED <<fsPath, fsBak, fNew, fOld, fLoad, restVars>>
    /\ NoSend

\* tmp.Write(data)
TmpWrite ==
    /\ fpc = "write"
    /\ \/ fsTmp' = Json(fNew) /\ fpc' = "sync"
       \/ WriteFails
    /\ UNCHANGED <<fsPath, fsBak, fNew, fOld, fLoad, restVars>>
    /\ NoSend

\* tmp.Sync()
TmpSync ==
    /\ fpc = "sync"
    /\ \/ fsTmp' = fsTmp /\ fpc' = "close"
       \/ WriteFails
    /\ UNCHANGED <<fsPath, fsBak, fNew, fOld, fLoad, restVars>>
    /\ NoSend

\* tmp.Close()
TmpClose ==
    /\ fpc = "close"
    /\ \/ fsTmp' = fsTmp /\ fpc' = "backup"
       \/ WriteFails
    /\ UNCHANGED <<fsPath, fsBak, fNew, fOld, fLoad, restVars>>
    /\ NoSend

\* if _, err := os.Stat(path); err == nil { _ = os.Rename(path, backupPath) }
RenameToBackup ==
    /\ fpc = "backup"
    /\ fpc' = "rename"
    /\ \/ fsPath # Absent /\ fsBak' = fsPath /\ fsPath' = Absent
       \/ UNCHANGED <<fsPath, fsBak>>           \* no file, or the rename failed
    /\ UNCHANGED <<fsTmp, fNew, fOld, fLoad, restVars>>
    /\ NoSend

\* os.Rename(tmp.Name(), path), and the return of atomicWriteFile
RenameToPath ==
    /\ fpc = "rename"
    /\ \/ fsPath' = fsTmp /\ fsTmp' = Absent /\ fpc' = "idle"
       \/ fsPath' = fsPath /\ WriteFails
    /\ UNCHANGED <<fsBak, fNew, fOld, fLoad, restVars>>
    /\ NoSend

\* the process is killed inside atomicWriteFile; an unfinished tmp.Write may
\* leave a prefix of the data in the temporary file
Crash ==
    /\ fpc \in {"create", "write", "sync", "close", "backup", "rename"}
    /\ fpc' = "down"
    /\ fsTmp' \in {fsTmp} \cup (IF fpc = "write" THEN {Partial} ELSE {})
    /\ UNCHANGED <<fsPath, fsBak, fNew, fOld, fLoad, restVars>>
    /\ NoSend

\* restart, NewStore: initFileIfNotExists(path, "{}")
NewStore ==
    /\ fpc = "down"
    /\ fpc' = "idle"
    /\ fsPath' = IF fsPath = Absent THEN Json(0) ELSE fsPath
    /\ UNCHANGED <<fsBak, fsTmp, fNew, fOld, fLoad, restVars>>
    /\ NoSend

\* a load of the collection (GetJob, ListJobs, ... under the read lock)
Load ==
    /\ fpc = "idle"
    /\ fLoad' = LoadFile(fsPath, fsBak)
    /\ UNCHANGED <<fsPath, fsBak, fsTmp, fpc, fNew, fOld, restVars>>
    /\ NoSend

FileNext ==
    \/ SaveBegin
    \/ CreateTemp
    \/ TmpWrite
    \/ TmpSync
    \/ TmpClose
    \/ RenameToBackup
    \/ RenameToPath
    \/ Crash
    \/ NewStore
    \/ Load

SpecFile == Init /\ [][FileNext]_vars


\* ================================================================ properties

\* C1: at no instant do two workers hold the job write lock, and between a
\* successful GetJobForUpdate and its commit the jobs file is exactly the map
\* the holder loaded: no other GetJobForUpdate, SaveJob, DeleteJob or commit
\* takes effect in between.
C1_ExclusiveWriteLock ==
    /\ Cardinality(jobsMu) <= 1
    /\ \A w \in Workers :
          /\ w \in jobsMu <=> wpc[w] \in {"skip", "step", "design", "latex", "compile", "commit"}
          /\ w \in jobsMu => jobsFile = wjobs[w]

\* a worker holds the lock while the other worker waits for it on the same
\* job and a handler waits to save that job
C1_Witness ==
    \E w \in Workers, v \in Workers, c \in Clients :
        /\ w \in jobsMu /\ v # w
        /\ wpc[v] = "lock" /\ wid[v] = wid[w]
        /\ cpc[c] = "save" /\ cid[c] = wid[w]

\* C2 (as claimed): every control operation persists its change under the lock
\* it read the job under, so when its SaveJob takes effect the stored job is
\* still the one it read: no committed change is overwritten by a write
\* computed from an older snapshot.
C2_NoStaleOverwrite ==
    [][\A c \in Clients :
          (cpc[c] = "save" /\ cpc'[c] # "save" /\ cop[c] \in ControlOps)
             => (cid[c] \in DOMAIN jobsFile /\ jobsFile[cid[c]] = cread[c])]_vars

\* the update for job j sent by the handler of a Retry
RetryUpdate(u) == u.message = "Job retrying from scratch"

\* a Retry handler saves job j in this step
RetrySaves(j) ==
    \E c \in Clients : cop[c] = "retry" /\ cid[c] = j /\ cpc[c] = "save" /\ cpc'[c] # "save"

\* the steps of the updates of job j sent in this step, after the last one sent before
StepsSeen(j) ==
    LET S == SelectSeq(sentNow', LAMBDA e : e.jobId = j) IN
    <<lastUpdate[j]>> \o [i \in 1..Len(S) |-> S[i].update]

\* C3 (as claimed): for each job the persisted currentStep and the step carried
\* by successive status updates only move forward along
\* prompt -> design -> latex -> compile -> done, except for a Retry.
C3_StepsOnlyForward ==
    [][\A j \in JobIds :
          /\ (j \in DOMAIN jobsFile /\ j \in DOMAIN jobsFile' /\ ~RetrySaves(j))
                => StepOrd(jobsFile'[j].step) >= StepOrd(jobsFile[j].step)
          /\ \A i \in 2..Len(StepsSeen(j)) :
                \/ RetryUpdate(StepsSeen(j)[i])
                \/ StepOrd(StepsSeen(j)[i].step) >= StepOrd(StepsSeen(j)[i - 1].step)]_vars

\* C4: a job whose status is completed is at step done and has a pdfUrl, in the
\* store and in the memory of the worker that holds it.
C4_CompletedIsDone ==
    /\ \A j \in DOMAIN jobsFile :
          jobsFile[j].status = StatusCompleted
             => jobsFile[j].step = StepDone /\ jobsFile[j].pdfUrl # <<>>
    /\ \A w \in Workers :
          wjob[w].status = StatusCompleted
             => wjob[w].step = StepDone /\ wjob[w].pdfUrl # <<>>

\* a completed job is in the store after a handler has written to it
C4_Witness ==
    \E j \in DOMAIN jobsFile : jobsFile[j].status = StatusCompleted /\ nreq > 0

\* C5 (as claimed): a stored job in status error, waiting_manual or
\* waiting_ai_fix has a non-empty errorMessage.
C5_ErrorMessageSet ==
    \A j \in DOMAIN jobsFile :
        jobsFile[j].status \in {StatusError, StatusWaitingManual, StatusWaitingAIFix}
           => jobsFile[j].errorMessage # ""

\* C6: 0 <= retryCount <= maxRetries for every job, stored or held by a worker
\* or a handler.
C6_RetryCountBounded ==
    /\ \A j \in DOMAIN jobsFile :
          0 <= jobsFile[j].retryCount /\ jobsFile[j].retryCount <= jobsFile[j].maxRetries
    /\ \A w \in Workers : 0 <= wjob[w].retryCount /\ wjob[w].retryCount <= wjob[w].maxRetries
    /\ \A c \in Clients : 0 <= cjob[c].retryCount /\ cjob[c].retryCount <= cjob[c].maxRetries

\* a generation call fails for a job that has used up its retries
C6_Witness ==
    \E w \in Workers :
        /\ wpc[w] = "commit" /\ wjob[w].status = StatusError
        /\ wjob[w].retryCount = wjob[w].maxRetries /\ wjob[w].maxRetries > 0

\* job j is being created: its handler has not yet returned
Creating(j) == \E c \in Clients : cop[c] = "create" /\ cid[c] = j

\* C7 (as claimed): every stored job, once its creation has finished, has
\* exactly one stored conversation whose jobId is the job's id.
C7_OneConversationPerJob ==
    \A j \in DOMAIN jobsFile : ~Creating(j) => Cardinality(ConvsOfJob(j)) = 1

\* C8 (as claimed): when the typesetter fails, the compile step leaves the job
\* in waiting_manual with the typesetter's log in errorLog, retryCount
\* unchanged, and sends a review-out update.
C8_CompileFailureEscalates ==
    [][\A w \in Workers :
          (wpc[w] = "compile" /\ wpc'[w] = "commit" /\ wjob'[w].status # StatusCompleted)
             => /\ wjob'[w].status = StatusWaitingManual
                /\ wjob'[w].errorLog # ""
                /\ wjob'[w].retryCount = wjob[w].retryCount
                /\ sentNow' # <<>>
                /\ sentNow'[Len(sentNow')].update.type = "review-out"]_vars

\* C9 (as claimed): once Abort has been called on a job while a pass on it is
\* running, no completed update is sent for that job.
C9_NoCompletedAfterAbort ==
    \A j \in JobIds : abortMid[j] => ~completedAfterAbort[j]

\* C10: a pass over a job that is neither pending nor running runs no step,
\* sends no update and commits the job exactly as it was stored.
C10_SkipLeavesJobUntouched ==
    [][\A w \in Workers :
          /\ (wpc[w] = "lock" /\ wpc'[w] # "lock" /\ wid[w] \in DOMAIN jobsFile
                /\ ~Processable(jobsFile[wid[w]]))
                => (wpc'[w] = "skip" /\ sentNow' = <<>> /\ lastUpdate' = lastUpdate
                    /\ jobsFile' = jobsFile /\ wjob'[w] = jobsFile[wid[w]])
          /\ wpc[w] = "skip"
                => (wpc'[w] \in {"skip", "idle"} /\ wjob'[w] \in {wjob[w], NoJob}
                    /\ (wpc'[w] = "idle"
                          => (sentNow' = <<>> /\ lastUpdate' = lastUpdate
                              /\ jobsFile' = jobsFile /\ w \notin jobsMu')))]_vars

\* a worker skips an aborted job
C10_Witness ==
    \E w \in Workers : wpc[w] = "skip" /\ wjob[w].status = StatusAborted

\* the pipeline is finished with job j
Terminal(j) == j.status = StatusCompleted \/ j.status = StatusAborted

\* C11 (as claimed): once a stored job is completed or aborted, no pass runs a
\* step for it, and no operation other than Retry makes it pending again.
C11_TerminalStaysTerminal ==
    [][/\ \A w \in Workers :
             (wpc[w] = "lock" /\ wpc'[w] = "step") => ~Terminal(jobsFile[wid[w]])
       /\ \A j \in JobIds :
             (j \in DOMAIN jobsFile /\ j \in DOMAIN jobsFile' /\ Terminal(jobsFile[j])
                /\ ~RetrySaves(j))
                => jobsFile'[j].status # StatusPending]_vars

Saturated == Len(jobs) = MaxQueue

\* C13 (as claimed): a call of Enqueue that finds the job channel saturated
\* never waits: at every point of the call its next step can be taken at once.
C13_EnqueueNeverWaits ==
    \A c \in Clients :
        (cpc[c] \in {"enq", "send"} /\ Saturated)
           => ENABLED (Enqueue(c) \/ EnqueueReturn(c))

\* C13 (amended): the send of Enqueue never waits; on a saturated channel it
\* returns "queue is full" and leaves the stored jobs, the stored
\* conversations and the job channel unchanged.  (Before the send, Enqueue's
\* existence check may wait for the jobs read lock.)
C13_SaturatedSendReturnsQueueFull ==
    [][\A c \in Clients :
          /\ cpc[c] = "send" => ENABLED EnqueueReturn(c)
          /\ (cpc[c] = "send" /\ cpc'[c] # "send" /\ Saturated)
                => /\ enqErr'[c] = "queue is full"
                   /\ jobs' = jobs
                   /\ jobsFile' = jobsFile
                   /\ convsFile' = convsFile]_vars

\* an Enqueue has returned "queue is full" and the channel is still saturated
C13_Witness ==
    \E c \in Clients : enqErr[c] = "queue is full" /\ cpc[c] = "idle" /\ Saturated

\* C14 (as claimed): when the Enqueue of Create, DesignApprove, LatexApprove,
\* LatexEdit or Retry finds the job channel saturated, the handler does not
\* answer "queued" (or "retrying"): the failure reaches the caller.
C14_QueueFullSurfaced ==
    [][\A c \in Clients :
          (cpc[c] = "send" /\ cpc'[c] = "idle" /\ cop[c] \in EnqueueOps /\ jobs' = jobs)
             => resp'[c] \notin {"queued", "retrying"}]_vars

\* C15 (as claimed): the SaveJob of a Retry stores the job with status pending,
\* step prompt, retryCount 0 and errorMessage, errorLog, design, latex and
\* pdfUrl cleared; its SaveConversation stores a new, empty conversation under
\* a new id; and once that has happened every step that loads the job's
\* conversation gets that conversation, not an earlier one.
C15_RetryStartsFresh ==
    [][/\ \A j \in JobIds :
             RetrySaves(j)
                => /\ jobsFile'[j].status = StatusPending
                   /\ jobsFile'[j].step = StepPrompt
                   /\ jobsFile'[j].retryCount = 0
                   /\ jobsFile'[j].errorMessage = "" /\ jobsFile'[j].errorLog = ""
                   /\ jobsFile'[j].design = "" /\ jobsFile'[j].latex = ""
                   /\ jobsFile'[j].pdfUrl = <<>>
       /\ \A c \in Clients :
             (cop[c] = "retry" /\ cpc[c] = "saveconv" /\ cpc'[c] # "saveconv")
                => \E k \in DOMAIN convsFile' \ DOMAIN convsFile :
                      /\ convsFile'[k] = NewConversation(k, cid[c])
                      /\ freshConv'[cid[c]] = k
       /\ \A w \in Workers :
             (wpc'[w] \in {"design", "latex"} /\ wconv'[w] # wconv[w]
                /\ freshConv[wid[w]] # 0)
                => wconv'[w].id = freshConv[wid[w]]]_vars

\* C16: a Retry that reads a job whose status is neither error nor aborted
\* returns at once with an error: the stored jobs and conversations, the job
\* channel and the updates are unchanged and no conversation id is used up.
C16_RetryRejected ==
    [][\A c \in Clients :
          (cop[c] = "retry" /\ cpc[c] = "get" /\ cpc'[c] # "get"
             /\ cid[c] \in DOMAIN jobsFile
             /\ jobsFile[cid[c]].status \notin {StatusError, StatusAborted})
             => /\ cpc'[c] = "idle"
                /\ resp'[c] = "cannot retry job in state"
                /\ jobsFile' = jobsFile
                /\ convsFile' = convsFile
                /\ nextConv' = nextConv
                /\ jobs' = jobs
                /\ sentNow' = <<>> /\ lastUpdate' = lastUpdate]_vars

\* a Retry of a completed job has been rejected
C16_Witness ==
    \E c \in Clients, j \in DOMAIN jobsFile :
        /\ resp[c] = "cannot retry job in state" /\ cpc[c] = "idle"
        /\ jobsFile[j].status = StatusCompleted
        /\ Cardinality(ConvsOfJob(j)) = 1

\* the precondition the specification gives for control operation op on job j
Precondition(op, j) ==
    CASE op = "designApprove" ->
            j.step = StepDesign /\ j.status \in {StatusRunning, StatusWaitingManual}
      [] op = "latexApprove"  -> j.step = StepLatex
      [] op = "abort"         -> ~Terminal(j)
      [] OTHER                -> TRUE

\* C17 (as claimed): a DesignApprove, LatexApprove or Abort whose handler read
\* a job that does not satisfy the operation's precondition changes no stored
\* job and puts nothing on the job channel.
C17_PreconditionsGuard ==
    [][\A c \in Clients :
          (cop[c] \in {"designApprove", "latexApprove", "abort"}
             /\ cpc[c] \in {"save", "send"} /\ cpc'[c] # cpc[c]
             /\ ~Precondition(cop[c], cread[c]))
             => (jobsFile' = jobsFile /\ jobs' = jobs)]_vars

\* client c serves a LatexFix whose handler read a job left by a failed
\* compilation (status error at step compile)
FixAfterCompileFailure(c) ==
    /\ cop[c] = "latexFix"
    /\ cread[c].status = StatusError /\ cread[c].step = StepCompile

C19_NoWorkerFaultOnStop ==
    fault # "worker"

\* C20 (as claimed): a load that follows a save of the collection file,
\* whether the save completed, failed with an I/O error or was cut short by a
\* crash followed by a restart, returns the snapshot stored before the save
\* or the snapshot the save was writing, never an error or another collection.
C20_AtomicReplace ==
    fLoad # NotLoaded => fLoad \in {Json(fOld), Json(fNew)}

\* C21 (as claimed): whenever a load finds the primary file absent, empty or
\* unparsable while the backup file holds a valid collection, the load
\* returns the backup's contents.
C21_LoadFallsBackToBackup ==
    (fLoad # NotLoaded /\ fsPath.kind # "json" /\ fsBak.kind = "json")
        => fLoad = fsBak

\* C22 (as claimed): immediately after a conversation is saved, every
\* conversation GetConversationByJobID can return for its job is the one
\* just saved, whatever other conversations the store already holds.
C22_ConversationRoundTrip ==
    [][\A k \in DOMAIN convsFile' :
          (k \notin DOMAIN convsFile \/ convsFile[k] # convsFile'[k])
              => \A m \in DOMAIN convsFile' :
                    convsFile'[m].jobId = convsFile'[k].jobId
                        => convsFile'[m] = convsFile'[k]]_vars

\* s is an initial segment of t
IsPrefix(s, t) == Len(s) <= Len(t) /\ SubSeq(t, 1, Len(s)) = s

\* C23 (as claimed): in every step, every stored conversation stays stored
\* and the message sequence stored before the step is a prefix of the one
\* stored after it (Retry installs a new conversation and is no exception).
C23_ConversationOnlyGrows ==
    [][\A k \in DOMAIN convsFile :
          /\ k \in DOMAIN convsFile'
          /\ IsPrefix(convsFile[k].messages, convsFile'[k].messages)]_vars

\* worker w's step records a failure on the job of its pass (SetError)
FailureStep(w) ==
    /\ InPass(w)
    /\ wjob[w].status # StatusError
    /\ wjob'[w].status = StatusError

\* C24 (as claimed): every step in which a pass fails leaves a non-empty
\* errorMessage on the job, which the commit of the pass stores, and places at
\* least one event with a message and a type on the status channel, however
\* many events the channel already holds.
C24_FailurePersistedAndAnnounced ==
    [][\A w \in Workers :
          /\ FailureStep(w) =>
                /\ wjob'[w].errorMessage # ""
                /\ \E i \in 1..Len(sentNow') :
                      /\ sentNow'[i].update.message # ""
                      /\ sentNow'[i].update.type # ""
                /\ nupd' > nupd
          /\ (wpc[w] = "commit" /\ wjob[w].status = StatusError /\ wpc'[w] = "idle") =>
                /\ jobsFile'[wid[w]].status = StatusError
                /\ jobsFile'[wid[w]].errorMessage # ""]_vars

\* worker w runs a pass on the job handler c has saved and not yet announced.
\* SaveJob waits for the write lock, so the pass took the lock after that
\* save: it loaded the saved job or a later one, marked it running and sent
\* "Job processing started" (and the updates of its steps) from that newer state
PassAfterSave(w, c) ==
    /\ cpc[c] = "emit"
    /\ wid[w] = cid[c]
    /\ w \in jobsMu
    /\ wpc[w] # "skip"

\* C25 (as claimed): a handler never emits the event of the job state it
\* saved after a worker pass has emitted events built from a state that
\* follows it.
C25_EventsInTransitionOrder ==
    [][\A c \in Clients :
          (cpc[c] = "emit" /\ cpc'[c] # "emit")
              => ~\E w \in Workers : PassAfterSave(w, c)]_vars

\* the messages of the updates in log, in order
Messages(log) == [i \in 1..Len(log) |-> log[i].message]

\* sub can be obtained from s by deleting elements
RECURSIVE Embeds(_, _)
Embeds(sub, s) ==
    IF sub = <<>> THEN TRUE
    ELSE IF s = <<>> THEN FALSE
    ELSE IF Head(s) = Head(sub) THEN Embeds(Tail(sub), Tail(s))
    ELSE Embeds(sub, Tail(s))

\* the events of the happy path
HappyEvents ==
    <<"Prompt validated, moving to design", "Design generated, advancing to LaTeX",
      "LaTeX generated, compiling PDF", "Compiling LaTeX to PDF",
      "Compilation completed successfully">>

\* the pass that sent log began on a job as Create leaves it and none of its
\* calls failed
HappyPass(log) ==
    /\ log # <<>>
    /\ log[1].step = StepPrompt
    /\ \A i \in 1..Len(log) : log[i].type \notin {"error", "retry"}

\* url ends in <id>.pdf
EndsInJobPdf(url, id) ==
    /\ Len(url) >= 2
    /\ SubSeq(url, Len(url) - 1, Len(url)) = PdfFilename(id)

C27_ListenerUnregisteredOnDisconnect ==
    [][/\ \A k \in Conns : wsc'[k] = "closed" => \A j \in JobIds : listeners'[j] # k
       /\ \A i \in 1..Len(sentNow') :
             Invoked[i][1] \in Conns => wsc[Invoked[i][1]] # "closed"]_vars

\* C28 (as claimed): a second call of the commit closure causes no fault and
\* changes neither the stored jobs nor the state of the lock.
C28_CommitIdempotent ==
    [][(upc = "committed" /\ upc' = "done") =>
          /\ fault' = fault
          /\ jobsFile' = jobsFile
          /\ jobsMu' = jobsMu]_vars

\* C29 (as claimed): applying cleanLatex to a text it has already cleaned
\* changes nothing: cleanLatex(cleanLatex(x)) = cleanLatex(x).
C29_CleanLatexIdempotent ==
    [][cleans >= 1 => fixedLatex' = fixedLatex]_vars

\* C30 (as claimed): whenever a pass is about to begin a step, the store
\* holds the job as the steps completed so far have left it: the same
\* currentStep, design and source as the job the worker works on.
C30_StepsPersisted ==
    \A w \in Workers :
        wpc[w] = "step" =>
            /\ wid[w] \in DOMAIN jobsFile
            /\ jobsFile[wid[w]].step = wjob[w].step
            /\ jobsFile[wid[w]].design = wjob[w].design
            /\ jobsFile[wid[w]].latex = wjob[w].latex

\* C31 (as claimed): once the context is cancelled, a worker between two
\* steps of a pass starts no further step: the job it holds is left as it is
\* and the pass goes on to commit.
C31_NoStepAfterCancel ==
    [][\A w \in Workers :
          (cancelled /\ wpc[w] = "step") =>
              /\ wjob'[w] = wjob[w]
              /\ wpc'[w] \in {"step", "commit"}]_vars

\* worker w's generation call (design or source step) returns an error: the
\* step is taken and the job does not advance
GenerationFails(w) ==
    /\ wpc[w] \in {"design", "latex"}
    /\ <<wpc[w], wjob[w]>>' # <<wpc[w], wjob[w]>>
    /\ wjob'[w].step = wjob[w].step

PromptStep(w) ==
    /\ wpc[w] = "step"
    /\ wjob[w].step = StepPrompt
    /\ <<wpc[w], wjob[w]>>' # <<wpc[w], wjob[w]>>

WorkerStep(w) ==
    \/ WorkerReceive(w)
    \/ ProcessJob(w)
    \/ RunStep(w)
    \/ FinishDesignStep(w)
    \/ FinishLatexStep(w)
    \/ FinishCompileStep(w)
    \/ Commit(w)

\* the steps of a handler that has started
ClientStep(c) ==
    \/ GetJobForUser(c)
    \/ LoadConversation(c)
    \/ Generated(c)
    \/ SaveJob(c)
    \/ SaveConversation(c)
    \/ EmitUpdate(c)
    \/ Enqueue(c)
    \/ EnqueueReturn(c)

C35_DeletedStaysDeleted ==
    [][\A id \in JobIds :
          (id < nextJob /\ id \notin DOMAIN jobsFile /\ ~Creating(id)) =>
              id \notin DOMAIN jobsFile']_vars

\* C36: the jobs write lock is never leaked: a worker holds it exactly while
\* it is inside a pass (from GetJobForUpdate returning the job to the commit
\* closure), whether or not loading or saving fails; a worker that is idle
\* or about to call GetJobForUpdate does not hold it.
C36_LockNeverLeaked ==
    /\ jobsMu \subseteq Workers
    /\ \A w \in Workers : w \in jobsMu <=> wpc[w] \notin {"idle", "lock"}

\* a pass that ran with no control request ever served has ended, its commit
\* did not reach the file, and the lock is free
C36_Witness ==
    \E j \in DOMAIN jobsFile :
        /\ nreq = 0
        /\ passLog[j] # <<>>
        /\ jobsFile[j].step = StepPrompt
        /\ \A w \in Workers : wpc[w] = "idle"
        /\ jobsMu = {}

Queued(j) == \E i \in 1..Len(jobs) : jobs[i] = j

\* C38 (as claimed): a job whose stored status is pending is eventually taken
\* by a worker: whenever no handler is serving a request for it, it is in the
\* job channel or in the hands of a worker.
C38_PendingJobIsScheduled ==
    \A j \in DOMAIN jobsFile :
        (jobsFile[j].status = StatusPending /\ \A c \in Clients : cid[c] # j) =>
            (Queued(j) \/ \E w \in Workers : wid[w] = j)

\* C39 (as claimed): the retryCount of a stored job is decreased only by the
\* save of a Retry request, and the retryCount of the job a pass works on is
\* never decreased and never exceeds maxRetries.
C39_RetryCountOnlyResetByRetry ==
    [][/\ \A j \in (DOMAIN jobsFile) \cap (DOMAIN jobsFile') :
             jobsFile'[j].retryCount < jobsFile[j].retryCount =>
                 \E c \in Clients : cpc[c] = "save" /\ cop[c] = "retry" /\ cid[c] = j
       /\ \A w \in Workers :
             (InPass(w) /\ wpc'[w] # "idle") =>
                 /\ wjob'[w].retryCount >= wjob[w].retryCount
                 /\ wjob'[w].retryCount <= wjob'[w].maxRetries]_vars

\* messages new are messages old followed by one user and one assistant message
AddsOnePair(old, new) ==
    /\ Len(new) = Len(old) + 2
    /\ IsPrefix(old, new)
    /\ new[Len(old) + 1].role = "user"
    /\ new[Len(old) + 2].role = "assistant"

\* C40 (as claimed): a failed generation attempt leaves the stored
\* conversations unchanged and an in-place retry works on a conversation
\* loaded from the store; a generation step, DesignRefine or AIFix that
\* succeeds adds exactly one user message and one assistant message to the
\* stored conversation and changes no other conversation.
C40_GenerationAddsOnePair ==
    [][/\ \A w \in Workers :
             GenerationFails(w) =>
                 /\ convsFile' = convsFile
                 /\ wpc'[w] = wpc[w] =>
                       \E k \in ConvsOfJob(wid[w]) :
                           wconv'[w] = convsFile[k]
       /\ \A w \in Workers :
             (wpc[w] \in {"design", "latex"} /\ wjob'[w].step # wjob[w].step) =>
                 LET k == wconv[w].id IN
                 /\ AddsOnePair(convsFile[k].messages, convsFile'[k].messages)
                 /\ \A x \in DOMAIN convsFile : x # k => convsFile'[x] = convsFile[x]
       /\ \A c \in Clients :
             (cpc[c] = "gen" /\ cpc'[c] = "idle") => convsFile' = convsFile
       /\ \A c \in Clients :
             (cpc[c] = "saveconv" /\ cpc'[c] # "saveconv"
                 /\ cop[c] \in {"designRefine", "latexFix"}) =>
                 LET k == cconv[c].id IN
                 /\ AddsOnePair(convsFile[k].messages, convsFile'[k].messages)
                 /\ \A x \in DOMAIN convsFile : x # k => convsFile'[x] = convsFile[x]]_vars

====
